---- MODULE Spec2Model ----
(***************************************************************************)
(* State-machine model of G2A (src/ga.py): the LLM-driven genetic          *)
(* algorithm.  Individuals are Python dicts, modelled as functions whose   *)
(* DOMAIN is the set of keys the dict holds, so that a lookup of a key    *)
(* that was never stored is visible (KeyError).  Floats are tagged pairs   *)
(* so that +inf and nan behave as in Python.                               *)
(***************************************************************************)
EXTENDS Integers, Sequences, FiniteSets, TLC

(* ------------------------------ bounds -------------------------------- *)
MaxPopSize == 2
MaxFE == 3
MaxStdoutLen == 3
MaxGenerations == 1

(* --------------------------- Python values ---------------------------- *)
None == "None"
NoElitist == [py_none |-> TRUE]
Undefined == "<undefined>"
NoError == [type |-> "", site |-> ""]

Fin(n) == <<"fin", n>>
PosInf == <<"inf", 1>>
NegInf == <<"inf", -1>>
NaN == <<"nan", 0>>

\* Python's x > 0 on a float
FloatGt0(x) == (x[1] = "fin" /\ x[2] > 0) \/ x = PosInf

\* Python's a < b on floats
FloatLt(a, b) ==
    IF a[1] = "nan" \/ b[1] = "nan" THEN FALSE
    ELSE IF a[1] = "fin" /\ b[1] = "fin" THEN a[2] < b[2]
    ELSE IF a[1] = "fin" THEN b = PosInf
    ELSE IF b[1] = "fin" THEN a = NegInf
    ELSE a = NegInf /\ b = PosInf

\* fitness values are rationals <<num, den>>; 0 is <<0, 1>>
Zero == <<0, 1>>

\* Python's 1 / x for a float x > 0
Reciprocal(x) == IF x = PosInf THEN Zero ELSE <<1, x[2]>>

\* dict update: d with the keys of u stored
SetKeys(d, u) ==
    [k \in DOMAIN d \cup DOMAIN u |-> IF k \in DOMAIN u THEN u[k] ELSE d[k]]

(* ------------------------- external collaborators --------------------- *)
\* a completion's text is a sequence of tokens; a fenced block carries code
Fence == "<fence python>"
FenceEnd == "<fence>"
Codes == {"cA"}
Completions ==
    {<<"prose">>} \cup {<<"prose", Fence, c, FenceEnd>> : c \in Codes}

\* utils.process_code: the code of the first fenced block, None without one
process_code(content) ==
    IF \E i \in 1..Len(content) : content[i] = Fence /\ i + 2 <= Len(content)
                                  /\ content[i + 2] = FenceEnd
    THEN LET i == CHOOSE j \in 1..Len(content) :
                     /\ content[j] = Fence /\ j + 2 <= Len(content)
                     /\ content[j + 2] = FenceEnd
                     /\ \A k \in 1..(j - 1) : content[k] # Fence
         IN content[i + 1]
    ELSE None

\* the harness capture: characters are a newline or a one-token line body
NL == "\n"
LineTokens == {"1", "2", "0", "-1", "inf", "nan", "DONE", "Traceback"}
RawStdout == UNION {[1..n -> LineTokens \cup {NL}] : n \in 0..MaxStdoutLen}
StdoutStrings ==
    {s \in RawStdout : \A i \in 1..(Len(s) - 1) : s[i] = NL \/ s[i + 1] = NL}

\* str.split on the newline: the list of lines, each a (possibly empty) token sequence
RECURSIVE Split(_)
Split(s) ==
    IF \A i \in 1..Len(s) : s[i] # NL THEN <<s>>
    ELSE LET i == CHOOSE j \in 1..Len(s) :
                      s[j] = NL /\ \A k \in 1..(j - 1) : s[k] # NL
         IN <<SubSeq(s, 1, i - 1)>> \o Split(SubSeq(s, i + 1, Len(s)))

\* float(line): the parsed value, or ValueError
ValueError == <<"ValueError", 0>>

ParseFloat(line) ==
    IF Len(line) # 1 THEN ValueError
    ELSE CASE line[1] = "1" -> Fin(1)
           [] line[1] = "2" -> Fin(2)
           [] line[1] = "0" -> Fin(0)
           [] line[1] = "-1" -> Fin(-1)
           [] line[1] = "inf" -> PosInf
           [] line[1] = "nan" -> NaN
           [] OTHER -> ValueError

\* utils.filter_traceback: the empty string without a traceback marker, else the message
filter_traceback(s) ==
    IF \E line \in {Split(s)[i] : i \in 1..Len(Split(s))} :
           Len(line) = 1 /\ line[1] = "Traceback"
    THEN "Traceback"
    ELSE ""

(* ------------------------------ state --------------------------------- *)
VARIABLES
    cfg,                    \* pop_size, max_fe, diversify
    pc,                     \* position of the controller
    ret,                    \* where evaluate_population returns to
    iteration,
    function_evals,
    elitist,
    best_obj_overall,
    best_code_overall,
    best_desc_overall,
    best_code_path_overall,
    population,             \* self.population
    responses,              \* completions not yet converted
    work,                   \* the population being built / evaluated
    inner_runs,             \* process handles of the current evaluation
    idx,                    \* loop index inside evaluate_population
    selected,               \* selected_population
    error,                  \* the propagated exception, if any
    result,                 \* what evolve returned
    fe_at_call,             \* function_evals when evaluate_population began
    work_at_call,           \* the batch evaluate_population was called with
    waited,                 \* has a process of this batch been waited on
    capture                 \* the capture file handed to the classification

vars == <<cfg, pc, ret, iteration, function_evals, elitist, best_obj_overall,
          best_code_overall, best_desc_overall, best_code_path_overall,
          population, responses, work, inner_runs, idx, selected, error,
          result, fe_at_call, work_at_call, waited, capture>>

bookkeeping == <<iteration, elitist, best_obj_overall, best_code_overall,
                 best_desc_overall, best_code_path_overall, population>>

\* self.system_prompt is read by crossover and mutate and never assigned
system_prompt == Undefined

Raise(type, site) ==
    /\ pc' = "aborted"
    /\ error' = [type |-> type, site |-> site]

(* ----------------------------- __init__ ------------------------------- *)
Init ==
    /\ cfg \in [pop_size : 0..MaxPopSize, max_fe : 0..MaxFE, diversify : BOOLEAN]
    /\ pc = "init_population"
    /\ ret = "init_bookkeeping"
    /\ iteration = 0
    /\ function_evals = 0
    /\ elitist = NoElitist
    /\ best_obj_overall = PosInf
    /\ best_code_overall = Undefined
    /\ best_desc_overall = Undefined
    /\ best_code_path_overall = Undefined
    /\ population = <<>>
    /\ responses = <<>>
    /\ work = <<>>
    /\ inner_runs = <<>>
    /\ idx = 0
    /\ selected = <<>>
    /\ error = NoError
    /\ result = <<>>
    /\ fe_at_call = 0
    /\ work_at_call = <<>>
    /\ waited = FALSE
    /\ capture = <<>>

(* ------------------------ response_to_individual ---------------------- *)
\* code + newline raises TypeError when process_code returned None
ResponseRaises(response) == process_code(response) = None

\* the dict built at the end of response_to_individual
Individual(code, response_id) ==
    [stdout_filepath |-> "problem_iter" \o ToString(iteration) \o "_response"
                         \o ToString(response_id) \o ".txt_stdout.txt",
     code_path |-> "problem_iter" \o ToString(iteration) \o "_code"
                   \o ToString(response_id) \o ".py",
     code |-> code,
     response_id |-> response_id]

response_to_individual(response, response_id) ==
    Individual(process_code(response), response_id)

mark_invalid_individual(individual, traceback_msg) ==
    SetKeys(individual, [exec_success |-> FALSE, obj |-> PosInf,
                         fitness |-> Zero, traceback_msg |-> traceback_msg])

(* --------------------------- init_population -------------------------- *)
\* chat_completion(pop_size, ...): pop_size completions, or a provider error
ChatCompletion ==
    /\ pc = "init_population"
    /\ \/ /\ \E r \in [1..cfg.pop_size -> Completions] : responses' = r
          /\ pc' = "responses_to_population"
          /\ UNCHANGED error
       \/ /\ Raise("ProviderError", "init_population")
          /\ UNCHANGED responses
    /\ UNCHANGED <<cfg, capture, ret, bookkeeping, function_evals, work, inner_runs,
                   idx, selected, result, fe_at_call, work_at_call, waited>>

\* entry of evaluate_population for the batch w
EnterEvaluate(w) ==
    /\ work' = w
    /\ inner_runs' = <<>>
    /\ idx' = 1
    /\ fe_at_call' = function_evals
    /\ work_at_call' = w
    /\ waited' = FALSE
    /\ pc' = IF Len(w) = 0 THEN ret' ELSE "launch"

ResponsesToPopulation ==
    /\ pc = "responses_to_population"
    /\ IF \E i \in 1..Len(responses) : ResponseRaises(responses[i])
       THEN /\ Raise("TypeError", "response_to_individual")
            /\ UNCHANGED <<work, inner_runs, idx, fe_at_call, work_at_call, waited, ret>>
       ELSE /\ ret' = "init_bookkeeping"
            /\ EnterEvaluate([i \in 1..Len(responses) |->
                                 response_to_individual(responses[i], i - 1)])
            /\ UNCHANGED error
    /\ responses' = <<>>
    /\ UNCHANGED <<cfg, capture, bookkeeping, function_evals, selected, result>>

(* -------------------------- evaluate_population ----------------------- *)
\* (variant) the result written at the head of the list
StoreAtFront(seq, k, v) == [seq EXCEPT ![1] = v]

\* population[response_id] = v
Store(seq, k, v) == [seq EXCEPT ![k] = v]

\* (variant) the increment placed after run_code, inside the try
CountedEvalsAfterLaunch(individual, launched) ==
    IF launched THEN function_evals + 1 ELSE function_evals

\* (variant) the increment placed before the null-code test
CountedEvalsAlways(individual, launched) == function_evals + 1

\* function_evals after one pass of the launch loop: the increment comes
\* after the skip of a null code and before run_code is tried
CountedEvals(individual, launched) ==
    IF individual.code = None THEN function_evals ELSE function_evals + 1

\* (variant) the launch loop left one pass early
LaunchLoopLeftEarly(i, n) == i >= n - 1

\* for response_id in range(len(population)): pass i of n was the last one
LaunchLoopDone(i, n) == i = n

\* one pass of the launch loop, for the individual at idx
Launch ==
    /\ pc = "launch"
    /\ LET individual == work[idx]
       IN /\ IF individual.code = None
             THEN /\ work' = Store(work, idx,
                        mark_invalid_individual(individual, "Invalid response!"))
                  /\ inner_runs' = Append(inner_runs, None)
                  /\ function_evals' = CountedEvals(individual, FALSE)
             ELSE \/ /\ inner_runs' = Append(inner_runs, "running")
                     /\ function_evals' = CountedEvals(individual, TRUE)
                     /\ UNCHANGED work
                  \/ /\ work' = Store(work, idx,
                           mark_invalid_individual(individual, "LaunchError"))
                     /\ inner_runs' = Append(inner_runs, None)
                     /\ function_evals' = CountedEvals(individual, FALSE)
          /\ pc' = IF LaunchLoopDone(idx, Len(work)) THEN "wait" ELSE "launch"
          /\ idx' = IF LaunchLoopDone(idx, Len(work)) THEN 1 ELSE idx + 1
    /\ UNCHANGED <<cfg, capture, ret, bookkeeping, responses, selected, error,
                   result, fe_at_call, work_at_call, waited>>

\* (variant) a list of two lines refused as well
IndexErrorBelowThree(lines) == Len(lines) < 3

\* stdout_str.split(newline)[-2] raises IndexError on a list shorter than two
IndexError(lines) == Len(lines) < 2

\* (variant) the classification without the assertion obj > 0
ClassifyNoAssert(individual, stdout_str) ==
    LET traceback_msg == filter_traceback(stdout_str)
        lines == Split(stdout_str)
        invalid == mark_invalid_individual(individual,
                       "Invalid std out / objective value!")
    IN IF traceback_msg = ""
       THEN IF IndexError(lines) THEN invalid
            ELSE LET obj == ParseFloat(lines[Len(lines) - 1])
                 IN IF obj = ValueError \/ obj = Fin(0) THEN invalid
                    ELSE SetKeys(individual,
                             [obj |-> obj, fitness |-> Reciprocal(obj),
                              exec_success |-> TRUE])
       ELSE mark_invalid_individual(individual, traceback_msg)

\* the classification of a finished harness run from its capture
Classify(individual, stdout_str) ==
    LET traceback_msg == filter_traceback(stdout_str)
        lines == Split(stdout_str)
        invalid == mark_invalid_individual(individual,
                       "Invalid std out / objective value!")
    IN IF traceback_msg = ""
       THEN IF IndexError(lines) THEN invalid
            ELSE LET obj == ParseFloat(lines[Len(lines) - 1])
                 IN IF obj = ValueError THEN invalid
                    ELSE IF ~FloatGt0(obj) THEN invalid
                    ELSE SetKeys(individual,
                             [obj |-> obj, fitness |-> Reciprocal(obj),
                              exec_success |-> TRUE])
       ELSE mark_invalid_individual(individual, traceback_msg)

\* (variant) the wait loop left at the first timeout
LeavesWaitLoopAtTimeout(i, n, timed_out) == timed_out \/ i = n

\* the wait loop ends with its last pass; after a timeout it goes on with the
\* next handle (continue)
LeavesWaitLoop(i, n, timed_out) == i = n

\* the process at idx finished in time and left stdout_str in its capture file
Finished(stdout_str) ==
    /\ work' = Store(work, idx, Classify(work[idx], stdout_str))
    /\ inner_runs' = Store(inner_runs, idx, "finished")

\* one pass of the wait loop (enumerate(inner_runs)), for the process at idx;
\* timed_out: communicate(timeout=20) raised TimeoutExpired
Wait ==
    /\ pc = "wait"
    /\ \E timed_out \in BOOLEAN :
          /\ IF inner_runs[idx] = None
             THEN ~timed_out /\ UNCHANGED <<work, inner_runs, waited>>
             ELSE /\ waited' = TRUE
                  /\ IF timed_out
                     THEN /\ work' = Store(work, idx,
                                mark_invalid_individual(work[idx],
                                                        "TimeoutExpired"))
                          /\ inner_runs' = Store(inner_runs, idx, "killed")
                     ELSE \E stdout_str \in StdoutStrings :
                              Finished(stdout_str)
          /\ IF LeavesWaitLoop(idx, Len(inner_runs), timed_out)
             THEN pc' = ret /\ idx' = 0
             ELSE pc' = "wait" /\ idx' = idx + 1
    /\ UNCHANGED <<cfg, capture, ret, bookkeeping, function_evals, responses, selected,
                   error, result, fe_at_call, work_at_call>>

(* ------------------------------ bookkeeping --------------------------- *)
Objs(pop) == [i \in 1..Len(pop) |-> pop[i].obj]

\* np.argmin: the first index of a least element (1-based here)
ArgMin(objs) ==
    CHOOSE i \in 1..Len(objs) :
        /\ \A j \in 1..Len(objs) : ~FloatLt(objs[j], objs[i])
        /\ \A j \in 1..(i - 1) : FloatLt(objs[i], objs[j])

\* (variant) the greatest objective of the generation
Max(objs) ==
    objs[CHOOSE i \in 1..Len(objs) :
             \A j \in 1..Len(objs) : ~FloatLt(objs[i], objs[j])]

\* min(objs)
Min(objs) == objs[ArgMin(objs)]

\* init_population, after evaluate_population has returned
InitBookkeeping ==
    /\ pc = "init_bookkeeping"
    /\ IF Len(work) = 0
       THEN /\ Raise("ValueError", "init_population")
            /\ UNCHANGED <<best_obj_overall, best_code_overall,
                           best_code_path_overall, population>>
       ELSE LET objs == Objs(work)
                best_sample_idx == ArgMin(objs)
            IN /\ best_obj_overall' = Min(objs)
               /\ best_code_overall' = work[best_sample_idx].code
               /\ best_code_path_overall' = work[best_sample_idx].code_path
               /\ population' = work
               /\ pc' = "update_iter"
               /\ UNCHANGED error
    /\ UNCHANGED <<cfg, capture, ret, iteration, function_evals, elitist,
                   best_desc_overall, responses, work, inner_runs, idx,
                   selected, result, fe_at_call, work_at_call, waited>>

\* (variant) the comparison of update_iter turned round
ImprovesOverallReversed(best_obj) == FloatLt(best_obj_overall, best_obj)

\* (variant) best-overall taken over on a tie as well
ImprovesOverallOnTie(best_obj) == ~FloatLt(best_obj_overall, best_obj)

ImprovesOverall(best_obj) == FloatLt(best_obj, best_obj_overall)

\* (variant) the elitist replaced on a tie as well
ReplacesElitistOnTie(best_obj) ==
    elitist = NoElitist \/ ~FloatLt(elitist.obj, best_obj)

ReplacesElitist(best_obj) ==
    elitist = NoElitist \/ FloatLt(best_obj, elitist.obj)

UpdateIter ==
    /\ pc = "update_iter"
    /\ LET objs == Objs(population)
           best_obj == Min(objs)
           best_sample_idx == ArgMin(objs)
           best == population[best_sample_idx]
       IN IF ImprovesOverall(best_obj) /\ "description" \notin DOMAIN best
          THEN \* best_obj_overall and best_code_overall are already assigned
               \* when the lookup of "description" raises
               /\ best_obj_overall' = best_obj
               /\ best_code_overall' = best.code
               /\ Raise("KeyError", "update_iter")
               /\ UNCHANGED <<best_desc_overall, best_code_path_overall,
                              elitist, iteration>>
          ELSE /\ IF ImprovesOverall(best_obj)
                  THEN /\ best_obj_overall' = best_obj
                       /\ best_code_overall' = best.code
                       /\ best_desc_overall' = best.description
                       /\ best_code_path_overall' = best.code_path
                  ELSE UNCHANGED <<best_obj_overall, best_code_overall,
                                   best_desc_overall, best_code_path_overall>>
               /\ elitist' = IF ReplacesElitist(best_obj) THEN best ELSE elitist
               /\ iteration' = iteration + 1
               /\ pc' = "evolve"
               /\ UNCHANGED error
    /\ UNCHANGED <<cfg, capture, ret, function_evals, population, responses, work,
                   inner_runs, idx, selected, result, fe_at_call, work_at_call, waited>>

(* -------------------------------- evolve ------------------------------ *)
\* the loop test, and the diversify call of a configuration that asks for it
\* (G2A defines no diversify method)
\* (variant) the loop test turned round
BudgetLeftReversed == function_evals > cfg.max_fe

\* (variant) a generation begun with the budget just reached
BudgetLeftInclusive == function_evals <= cfg.max_fe

\* while self.function_evals < self.cfg.max_fe
BudgetLeft == function_evals < cfg.max_fe

EvolveLoop ==
    /\ pc = "evolve"
    /\ IF BudgetLeft
       THEN IF cfg.diversify
            THEN Raise("AttributeError", "evolve")
            ELSE pc' = "random_select" /\ UNCHANGED error
       ELSE pc' = "return" /\ UNCHANGED error
    /\ UNCHANGED <<cfg, capture, ret, bookkeeping, function_evals, responses, work,
                   inner_runs, idx, selected, result, fe_at_call, work_at_call, waited>>

\* the return statement reads three attributes
Return ==
    /\ pc = "return"
    /\ IF Undefined \in {best_code_overall, best_desc_overall,
                         best_code_path_overall}
       THEN Raise("AttributeError", "return") /\ UNCHANGED result
       ELSE /\ result' = <<best_code_overall, best_desc_overall,
                           best_code_path_overall>>
            /\ pc' = "returned"
            /\ UNCHANGED error
    /\ UNCHANGED <<cfg, capture, ret, bookkeeping, function_evals, responses, work,
                   inner_runs, idx, selected, fe_at_call, work_at_call, waited>>

\* the pool evolve hands to random_select
SelectionPool ==
    IF elitist = NoElitist THEN population ELSE <<elitist>> \o population

Successful(pool) == SelectSeq(pool, LAMBDA individual : individual.exec_success)

\* (variant) the two parents drawn with replacement
PairsWithReplacement(n) == (1..n) \X (1..n)

\* np.random.choice(population, size=2, replace=False): the samples of two
\* distinct positions; there is none (ValueError) for fewer than two candidates
Pairs(n) == {p \in (1..n) \X (1..n) : p[1] # p[2]}

RandomSelect ==
    /\ pc = "random_select"
    /\ LET candidates == Successful(SelectionPool)
       IN IF cfg.pop_size > 0 /\ Pairs(Len(candidates)) = {}
          THEN Raise("ValueError", "random_select") /\ UNCHANGED selected
          ELSE /\ \E draws \in [1..cfg.pop_size -> Pairs(Len(candidates))] :
                     selected' = [k \in 1..(2 * cfg.pop_size) |->
                                     candidates[draws[(k + 1) \div 2]
                                                     [2 - (k % 2)]]]
               /\ pc' = "crossover"
               /\ UNCHANGED error
    /\ UNCHANGED <<cfg, capture, ret, bookkeeping, function_evals, responses, work,
                   inner_runs, idx, result, fe_at_call, work_at_call, waited>>

\* the exception the prompt of an individual raises, "" when it raises none
PromptRaises(parents) ==
    IF \E i \in 1..Len(parents) : "description" \notin DOMAIN parents[i]
    THEN "KeyError"
    ELSE IF system_prompt = Undefined THEN "AttributeError"
    ELSE ""

Offspring(completions) ==
    [i \in 1..Len(completions) |-> response_to_individual(completions[i], i - 1)]

Crossover ==
    /\ pc = "crossover"
    /\ IF Len(selected) # 2 * cfg.pop_size
       THEN Raise("AssertionError", "crossover") /\ UNCHANGED work
       ELSE IF Len(selected) > 0 /\ PromptRaises(SubSeq(selected, 1, 2)) # ""
       THEN Raise(PromptRaises(SubSeq(selected, 1, 2)), "crossover")
            /\ UNCHANGED work
       ELSE \E completions \in [1..(Len(selected) \div 2) -> Completions] :
               IF \E i \in 1..Len(completions) : ResponseRaises(completions[i])
               THEN Raise("TypeError", "response_to_individual")
                    /\ UNCHANGED work
               ELSE /\ work' = Offspring(completions)
                    /\ pc' = "mutate"
                    /\ UNCHANGED error
    /\ UNCHANGED <<cfg, capture, ret, bookkeeping, function_evals, responses,
                   inner_runs, idx, selected, result, fe_at_call, work_at_call, waited>>

\* mutate: draw holds the slots whose uniform draw fell below mutation_rate
Mutate ==
    /\ pc = "mutate"
    /\ \E draw \in SUBSET (1..Len(work)) :
          IF draw # {}
             /\ PromptRaises(<<work[CHOOSE i \in draw : \A j \in draw : i <= j]>>) # ""
          THEN /\ Raise(PromptRaises(
                        <<work[CHOOSE i \in draw : \A j \in draw : i <= j]>>),
                        "mutate")
               /\ UNCHANGED <<work, inner_runs, idx, fe_at_call, work_at_call, waited, ret>>
          ELSE \E completions \in [draw -> Completions] :
               IF \E i \in draw : ResponseRaises(completions[i])
               THEN /\ Raise("TypeError", "response_to_individual")
                    /\ UNCHANGED <<work, inner_runs, idx, fe_at_call, work_at_call, waited, ret>>
               ELSE IF Len(work) # cfg.pop_size
               THEN /\ Raise("AssertionError", "mutate")
                    /\ UNCHANGED <<work, inner_runs, idx, fe_at_call, work_at_call, waited, ret>>
               ELSE /\ ret' = "adopt"
                    /\ EnterEvaluate(
                          [i \in 1..Len(work) |->
                              IF i \in draw
                              THEN response_to_individual(completions[i], i - 1)
                              ELSE work[i]])
                    /\ UNCHANGED error
    /\ UNCHANGED <<cfg, capture, bookkeeping, function_evals, responses, selected, result>>

\* self.population = population, before update_iter
Adopt ==
    /\ pc = "adopt"
    /\ population' = work
    /\ pc' = "update_iter"
    /\ UNCHANGED <<cfg, capture, ret, iteration, function_evals, elitist,
                   best_obj_overall, best_code_overall, best_desc_overall,
                   best_code_path_overall, responses, work, inner_runs, idx,
                   selected, error, result, fe_at_call, work_at_call, waited>>

(* --------------------------- specifications --------------------------- *)
\* a run of the program: construction, then evolve.  Crossover raises in every
\* pass (C5), so mutate and the adoption of a new population are steps of the
\* generation tail below only.
Next ==
    \/ ChatCompletion
    \/ ResponsesToPopulation
    \/ Launch
    \/ Wait
    \/ InitBookkeeping
    \/ UpdateIter
    \/ EvolveLoop
    \/ Return
    \/ RandomSelect
    \/ Crossover

Spec == Init /\ [][Next]_vars

\* One generation's tail (evolve, from mutate to update_iter) on an offspring
\* batch handed in by the caller: any dicts of the shape response_to_individual
\* builds, with or without code, with or without a description.
OfferedIndividuals(response_id) ==
    LET plain == {Individual(code, response_id) : code \in Codes \cup {None}}
    IN plain \cup {SetKeys(individual, [description |-> "desc"]) :
                      individual \in plain}

SupplyOffspring ==
    /\ pc = "evolve"
    /\ iteration <= MaxGenerations
    /\ \E batch \in [1..cfg.pop_size -> UNION {OfferedIndividuals(i - 1) :
                                                 i \in 1..cfg.pop_size}] :
          /\ \A i \in 1..cfg.pop_size : batch[i].response_id = i - 1
          /\ work' = batch
    /\ pc' = "mutate"
    /\ UNCHANGED <<cfg, capture, ret, bookkeeping, function_evals, responses,
                   inner_runs, idx, selected, error, result, fe_at_call, work_at_call, waited>>

InitGeneration == Init /\ cfg.max_fe = 0 /\ ~cfg.diversify /\ cfg.pop_size > 0

NextGeneration ==
    \/ ChatCompletion
    \/ ResponsesToPopulation
    \/ Launch
    \/ Wait
    \/ InitBookkeeping
    \/ UpdateIter
    \/ SupplyOffspring
    \/ Mutate
    \/ Adopt

SpecGeneration == InitGeneration /\ [][NextGeneration]_vars

\* The loop of evolve with its budget test, each pass made on an offspring
\* batch handed in by the caller in place of selection and crossover.
InitBudget == Init /\ cfg.max_fe >= 1 /\ ~cfg.diversify /\ cfg.pop_size > 0

SupplyOffspringInBudget == BudgetLeft /\ SupplyOffspring

BudgetSpent == ~BudgetLeft /\ EvolveLoop

NextBudget ==
    \/ ChatCompletion
    \/ ResponsesToPopulation
    \/ Launch
    \/ Wait
    \/ InitBookkeeping
    \/ UpdateIter
    \/ SupplyOffspringInBudget
    \/ Mutate
    \/ Adopt
    \/ BudgetSpent
    \/ Return

SpecBudget == InitBudget /\ [][NextBudget]_vars

\* The classification alone: evaluate_population of generation 0 stands at the
\* wait on the one process of a batch of one, and the capture file holds any
\* text within the bound.
InitClassify ==
    /\ cfg \in [pop_size : {1}, max_fe : 0..MaxFE, diversify : BOOLEAN]
    /\ pc = "wait"
    /\ ret = "init_bookkeeping"
    /\ iteration = 0
    /\ function_evals = 1
    /\ elitist = NoElitist
    /\ best_obj_overall = PosInf
    /\ best_code_overall = Undefined
    /\ best_desc_overall = Undefined
    /\ best_code_path_overall = Undefined
    /\ population = <<>>
    /\ responses = <<>>
    /\ \E code \in Codes : work = <<Individual(code, 0)>>
    /\ work_at_call = work
    /\ inner_runs = <<"running">>
    /\ idx = 1
    /\ selected = <<>>
    /\ error = NoError
    /\ result = <<>>
    /\ fe_at_call = 0
    /\ waited = FALSE
    /\ capture \in StdoutStrings

\* the pass of the wait loop for a process that finished in time, on the
\* capture at hand
ReadCapture ==
    /\ pc = "wait"
    /\ inner_runs[idx] # None
    /\ waited' = TRUE
    /\ Finished(capture)
    /\ IF LeavesWaitLoop(idx, Len(inner_runs), FALSE)
       THEN pc' = ret /\ idx' = 0
       ELSE pc' = "wait" /\ idx' = idx + 1
    /\ UNCHANGED <<cfg, capture, ret, bookkeeping, function_evals, responses,
                   selected, error, result, fe_at_call, work_at_call>>

NextClassify == ReadCapture

SpecClassify == InitClassify /\ [][NextClassify]_vars

(* ------------------------------- claims ------------------------------- *)
AfterEvaluate == pc \in {"init_bookkeeping", "adopt"}
GenerationBoundary == pc = "evolve"

Scored(individual) ==
    /\ {"exec_success", "obj", "fitness"} \subseteq DOMAIN individual
    /\ \/ /\ individual.exec_success
          /\ FloatGt0(individual.obj)
          /\ individual.fitness = Reciprocal(individual.obj)
       \/ /\ ~individual.exec_success
          /\ individual.obj = PosInf
          /\ individual.fitness = Zero

\* C1: when evaluate_population has returned, every individual of the batch is
\* either (exec_success, obj > 0, fitness = 1/obj) or (not exec_success,
\* obj = +inf, fitness = 0); so is every individual of self.population and the
\* elitist at every generation boundary.
C1_EveryIndividualScored ==
    /\ AfterEvaluate => \A i \in 1..Len(work) : Scored(work[i])
    /\ GenerationBoundary =>
          /\ \A i \in 1..Len(population) : Scored(population[i])
          /\ elitist # NoElitist /\ Scored(elitist)

\* C1 witness: an evaluation of a later generation returned a batch that mixes
\* a null code, a success and a failed run
C1_Witness ==
    /\ pc = "adopt"
    /\ \E i, j \in 1..Len(work) :
          /\ work[i].code = None
          /\ work[j].exec_success

\* the individuals evaluate_population has handed back
Evaluated ==
    (IF AfterEvaluate THEN {work[i] : i \in 1..Len(work)} ELSE {})
        \cup {population[i] : i \in 1..Len(population)}

NoFailureMessage(individual) ==
    "traceback_msg" \notin DOMAIN individual \/ individual.traceback_msg = ""

\* C2: for every evaluated individual, exec_success holds exactly when its
\* objective is finite and strictly positive and it carries no failure message;
\* a capture whose second-to-last line parses to +inf is not a success.
C2_SuccessIffFinitePositive ==
    \A individual \in Evaluated :
        individual.exec_success <=>
            /\ individual.obj[1] = "fin"
            /\ individual.obj[2] > 0
            /\ NoFailureMessage(individual)

\* C3: best_obj_overall never increases, whatever the generations yield.
C3_BestObjNonIncreasing ==
    [][~FloatLt(best_obj_overall, best_obj_overall')]_vars

\* C3 witness: update_iter of a generation after the initial one has lowered
\* best_obj_overall (only that branch stores a description)
C3_Witness ==
    /\ GenerationBoundary
    /\ iteration = 2
    /\ best_desc_overall # Undefined
    /\ best_obj_overall = Fin(1)

\* C4: right after every update_iter no individual of self.population has an
\* objective below the elitist's, and an elitist is replaced only by a
\* generation whose best objective is strictly lower than its own.
C4_ElitistProperty ==
    /\ [](GenerationBoundary =>
            \A i \in 1..Len(population) :
                ~FloatLt(population[i].obj, elitist.obj))
    /\ [][(elitist # NoElitist /\ elitist' # elitist) =>
            FloatLt(Min(Objs(population)), elitist.obj)]_vars

\* C4 witness: the elitist of generation 0 has been replaced by an individual
\* of generation 1
C4_Witness ==
    /\ GenerationBoundary
    /\ iteration = 2
    /\ elitist # NoElitist
    /\ \E i \in 1..Len(population) :
          elitist = population[i] /\ elitist.obj = Fin(1)

\* C5: in every pass of the loop random_select hands over 2 * pop_size
\* parents, crossover returns pop_size offspring, mutate returns pop_size
\* individuals, and self.population holds pop_size individuals at every
\* generation boundary.
C5_SizesInEveryPass ==
    /\ pc = "crossover" => Len(selected) = 2 * cfg.pop_size
    /\ error.site \notin {"crossover", "mutate"}
    /\ pc = "mutate" => Len(work) = cfg.pop_size
    /\ pc = "adopt" => Len(work) = cfg.pop_size
    /\ GenerationBoundary => Len(population) = cfg.pop_size

NonNull(batch, n) == Cardinality({i \in 1..n : batch[i].code # None})

\* C6: one call of evaluate_population adds to function_evals the number of
\* individuals of the batch whose code is not null, each counted when its pass
\* of the launch loop is made, whatever becomes of the launch and of the run.
C6_CountsSubmitted ==
    /\ pc = "launch" => function_evals = fe_at_call + NonNull(work, idx - 1)
    /\ (pc = "wait" \/ AfterEvaluate) =>
          function_evals = fe_at_call + NonNull(work, Len(work))

\* C6 witness: a returned batch with a null code and a launch that raised
C6_Witness ==
    /\ pc = "adopt"
    /\ \E i, j \in 1..Len(work) :
          /\ work[i].code = None
          /\ ~work[j].exec_success
          /\ work[j].traceback_msg = "LaunchError"
    /\ function_evals = fe_at_call + 1

SkipsNullCode ==
    /\ inner_runs' = Append(inner_runs, None)
    /\ ~work'[idx].exec_success
    /\ work'[idx].traceback_msg = "Invalid response!"

C8_FailuresIsolated ==
    /\ error.site # "response_to_individual"
    /\ AfterEvaluate =>
          \A i \in 1..Len(work) :
              /\ "obj" \in DOMAIN work[i]
              /\ ~work[i].exec_success => work[i].obj = PosInf

LeftLoop == pc \in {"return", "returned"}

\* C9: every run of evolve leaves the loop or ends with a propagated error,
\* and the loop is left only with function_evals >= max_fe.
C9_TerminatesOnBudget ==
    /\ <>(LeftLoop \/ pc = "aborted")
    /\ [](LeftLoop => function_evals >= cfg.max_fe)

\* C9 witness: the loop has been left
C9_Witness == pc = "return" /\ function_evals >= cfg.max_fe /\ cfg.max_fe > 0

\* C10: with the budget used up evolve returns the code, the description and
\* the path of the best individual, all three defined and from the individual
\* whose objective is best_obj_overall.
C10_ReturnsBestTriple ==
    /\ pc = "return" =>
          Undefined \notin {best_code_overall, best_desc_overall,
                            best_code_path_overall}
    /\ error # [type |-> "AttributeError", site |-> "return"]
    /\ pc = "returned" =>
          \E individual \in {elitist} \cup Evaluated :
              /\ individual.obj = best_obj_overall
              /\ result = <<individual.code, individual.description,
                            individual.code_path>>

\* a run of the program under the scheduling of a single controller thread,
\* which always takes its next step
SpecFair == Spec /\ WF_vars(Next)

\* the number of entries of the selection pool that random_select keeps
SuccessfulEntries == Len(Successful(SelectionPool))

C12_PairsDistinct ==
    pc = "crossover" =>
        \A k \in 1..(Len(selected) \div 2) :
            selected[2 * k - 1] # selected[2 * k]

\* C13: within one call of evaluate_population no process of the batch is
\* waited on before every individual of the batch has had its pass of the
\* launch loop: while the launch loop runs nothing has been waited on, and the
\* first wait of a call comes with one handle (or None) per individual.
C13_LaunchAllThenWait ==
    /\ [](pc = "launch" => ~waited)
    /\ [][(~waited /\ waited') =>
            (pc = "wait" /\ Len(inner_runs) = Len(work))]_vars

\* C13 witness: two processes were launched and one of them has been waited on
C13_Witness ==
    /\ waited
    /\ Len(work) = 2
    /\ \A i \in 1..Len(inner_runs) : inner_runs[i] # None
    /\ \E i \in 1..Len(inner_runs) : inner_runs[i] = "running"

\* C14: evaluate_population hands back a list of the length of its input in
\* which position i holds the individual of input position i (every key of
\* the input individual, code and response_id among them, as it was), with
\* exec_success, obj and fitness stored at every position.
C14_IndexAligned ==
    AfterEvaluate =>
        /\ Len(work) = Len(work_at_call)
        /\ \A i \in 1..Len(work) :
              /\ DOMAIN work_at_call[i] \subseteq DOMAIN work[i]
              /\ \A key \in DOMAIN work_at_call[i] :
                    work[i][key] = work_at_call[i][key]
              /\ {"exec_success", "obj", "fitness"} \subseteq DOMAIN work[i]

\* C14 witness: a batch of two came back with a failed run at the first
\* position and a success at the second
C14_Witness ==
    /\ pc = "adopt"
    /\ Len(work) = 2
    /\ work[1].code # None /\ ~work[1].exec_success
    /\ work[2].exec_success

InOrAfterWait == pc = "wait" \/ AfterEvaluate

\* C15: a launched process that does not finish within the deadline has its
\* individual marked invalid (exec_success false, obj = +inf, the timeout
\* message) and is killed; within the call it is never launched or waited on
\* again and its individual stays as marked; every later handle of the batch
\* is still waited on, so that no process is left unwaited and every
\* individual is classified when the call returns.
C15_TimeoutIsolated ==
    /\ [](InOrAfterWait =>
            \A i \in 1..Len(inner_runs) :
                inner_runs[i] = "killed" =>
                    /\ ~work[i].exec_success
                    /\ work[i].obj = PosInf
                    /\ work[i].traceback_msg = "TimeoutExpired")
    /\ [][pc = "wait" =>
            \A i \in 1..Len(inner_runs) :
                inner_runs[i] = "killed" =>
                    inner_runs'[i] = "killed" /\ work'[i] = work[i]]_vars
    /\ [](AfterEvaluate =>
            \A i \in 1..Len(work) :
                /\ inner_runs[i] \in {None, "finished", "killed"}
                /\ "exec_success" \in DOMAIN work[i])

\* C15 witness: the first process of a batch timed out and was killed, the
\* second was waited on afterwards and classified a success
C15_Witness ==
    /\ AfterEvaluate
    /\ Len(inner_runs) = 2
    /\ inner_runs[1] = "killed"
    /\ inner_runs[2] = "finished"
    /\ work[2].exec_success

\* C16: mutate returns the population in its order with only the drawn slots
\* replaced: it does not raise, the list keeps its length, and every position
\* holds either the individual it held or the individual built from a
\* completion for that slot, with response_id = the slot.
C16_MutateReplacesSelected ==
    [][pc = "mutate" =>
          /\ pc' # "aborted"
          /\ Len(work') = Len(work)
          /\ \A i \in 1..Len(work) :
                \/ work'[i] = work[i]
                \/ \E completion \in Completions :
                      /\ ~ResponseRaises(completion)
                      /\ work'[i] = response_to_individual(completion, i - 1)]_vars

AllFailed(pop) == \A i \in 1..Len(pop) : ~pop[i].exec_success

BestOverallUnchanged ==
    /\ best_obj_overall' = best_obj_overall
    /\ best_code_overall' = best_code_overall
    /\ best_code_path_overall' = best_code_path_overall

\* C17 (as stated): update_iter of a generation whose individuals all failed
\* leaves best-overall (objective, code, path) and the elitist as they were,
\* adds exactly one to the generation counter, and the generation has
\* increased function_evals.
C17_AllFailedGeneration ==
    [][(pc = "update_iter" /\ AllFailed(population)) =>
          /\ BestOverallUnchanged
          /\ elitist' = elitist
          /\ iteration' = iteration + 1
          /\ function_evals > fe_at_call]_vars

\* C17 (amended): update_iter of a generation after the initial one whose
\* individuals all failed leaves best-overall and the elitist as they were
\* and adds exactly one to the generation counter; the generation has added
\* to function_evals the number of its individuals with a code (nothing when
\* every code is null).  An all-failed initial generation advances the
\* counter too, but its first individual becomes the elitist and the owner of
\* the best code and path.
C17_AllFailedLaterGeneration ==
    [][(pc = "update_iter" /\ AllFailed(population)) =>
          /\ BestOverallUnchanged
          /\ iteration' = iteration + 1
          /\ function_evals =
                fe_at_call + NonNull(population, Len(population))
          /\ IF iteration >= 1
             THEN elitist' = elitist
             ELSE /\ elitist = NoElitist
                  /\ elitist' = population[1]
                  /\ best_code_overall = population[1].code
                  /\ best_code_path_overall = population[1].code_path]_vars

\* C17 witness: a generation after the initial one failed throughout, ran at
\* least one code, and left the successful elitist of generation 0 in place
C17_Witness ==
    /\ GenerationBoundary
    /\ iteration = 2
    /\ AllFailed(population)
    /\ function_evals > fe_at_call
    /\ elitist # NoElitist
    /\ elitist.exec_success
    /\ best_obj_overall = elitist.obj

\* the capture has been classified (SpecClassify)
Classified == inner_runs = <<"finished">>

NoErrorMarker == filter_traceback(capture) = ""

\* the lines of a text: the newline-terminated ones and an unterminated rest
LineCount(s) ==
    Cardinality({i \in 1..Len(s) : s[i] = NL})
        + (IF Len(s) > 0 /\ s[Len(s)] # NL THEN 1 ELSE 0)

Malformed(individual) ==
    /\ ~individual.exec_success
    /\ individual.obj = PosInf
    /\ individual.traceback_msg = "Invalid std out / objective value!"

\* C18 (as stated): a capture with no error marker and fewer than two lines
\* (no line, or a single line with or without a trailing newline) is
\* classified as malformed, never as a success.
C18_FewerThanTwoLinesMalformed ==
    (Classified /\ NoErrorMarker /\ LineCount(capture) < 2) =>
        Malformed(work[1])

\* C18 (amended): a capture with no error marker and no newline in it (no
\* text, or a single unterminated line) is classified as malformed; a single
\* line terminated by a newline is read as the objective: a success exactly
\* when it parses to a float above 0, malformed otherwise.
C18_NoNewlineMalformed ==
    (Classified /\ NoErrorMarker) =>
        /\ (\A i \in 1..Len(capture) : capture[i] # NL) => Malformed(work[1])
        /\ (Len(capture) = 2 /\ capture[1] # NL /\ capture[2] = NL) =>
              IF FloatGt0(ParseFloat(<<capture[1]>>))
              THEN /\ work[1].exec_success
                   /\ work[1].obj = ParseFloat(<<capture[1]>>)
              ELSE Malformed(work[1])

\* C18 witness: the capture of a single line "1" with its newline has been
\* classified a success
C18_Witness ==
    /\ Classified
    /\ capture = <<"1", NL>>
    /\ work[1].exec_success
    /\ work[1].obj = Fin(1)

\* C19: at every generation boundary (init_population done, or update_iter
\* done) there is an elitist and best_obj_overall equals its objective.
C19_BestIsElitistObj ==
    GenerationBoundary =>
        /\ elitist # NoElitist
        /\ best_obj_overall = elitist.obj

\* C19 witness: the boundary after a generation that improved on generation
\* 0; best-overall and the elitist both moved to its best individual
C19_Witness ==
    /\ GenerationBoundary
    /\ iteration = 2
    /\ elitist # NoElitist
    /\ "description" \in DOMAIN elitist
    /\ best_code_path_overall = elitist.code_path
    /\ best_obj_overall = Fin(1)

\* C20: with max_fe >= 1, function_evals stays below max_fe + pop_size in
\* every state: the budget is overshot by less than one generation.
C20_OvershootBelowOneGeneration ==
    cfg.max_fe >= 1 => function_evals < cfg.max_fe + cfg.pop_size

\* C20 witness: a pass of the loop begun one evaluation short of the budget
\* has run a full generation and ended at the greatest overshoot
C20_Witness ==
    /\ GenerationBoundary
    /\ iteration = 2
    /\ cfg.pop_size = 2
    /\ fe_at_call = cfg.max_fe - 1
    /\ function_evals = cfg.max_fe + cfg.pop_size - 1

====
